---- MODULE Spec2Model ----
(***************************************************************************)
(* Model of apps/desktop/src-tauri/src/main.rs: the three Tauri commands   *)
(* open_folder_dialog, start_dev_server and stop_dev_server, and the       *)
(* managed DevServerState { process: Mutex<Option<Child>> } they share.    *)
(*                                                                         *)
(* The commands are async fns, so the runtime may run several invocations  *)
(* at once.  An invocation is cut into steps at the points where it waits  *)
(* for the mutex and where it calls into the operating system with the     *)
(* mutex held; everything between two such points is one atomic step.      *)
(***************************************************************************)
EXTENDS Integers, Sequences, FiniteSets, TLC

(* ---------------------------------------------------------------- bounds *)

\* Total number of command invocations in one run.  Every invocation is a
\* task of its own, numbered in the order of invocation, and any number of
\* them may be in flight at once.
MaxCalls == 3

Calls == 1..MaxCalls

(* ------------------------------------------------------------ environment *)

\* Values of the repo_path argument.
Repos == {"/a", "/b"}

\* The lockfile names start_dev_server looks for.
LockNames == {"pnpm-lock.yaml", "yarn.lock"}

\* Ports a spawned dev server may really bind.
Ports == {3001, 5173}

\* io::Error texts of a failed spawn and of a failed kill.
SpawnErrors == {"No such file or directory"}
KillErrors == {"Operation not permitted"}

\* A PathBuf is a sequence of units; "<FF>" stands for a unit that is not
\* valid Unicode.
FolderChoices == {<<"/a">>, <<"/b", "<FF>">>}

\* Option::None, for the handle, for `child` and for the dialog's result.
None == 0
NoFolder == <<>>

(* ---------------------------------------------------------- pure functions *)

\* Path::new(&format!("{}/<name>", repo_path)).exists()
Exists(files, repo, name) == (repo \o "/" \o name) \in files

\* The package manager chosen from the lockfiles at the root of repo_path.
DetectPmYarnFirst(files, repo) ==
    IF Exists(files, repo, "yarn.lock") THEN "yarn"
    ELSE IF Exists(files, repo, "pnpm-lock.yaml") THEN "pnpm"
    ELSE "npm"

DetectPm(files, repo) ==
    IF Exists(files, repo, "pnpm-lock.yaml") THEN "pnpm"
    ELSE IF Exists(files, repo, "yarn.lock") THEN "yarn"
    ELSE "npm"

\* Path::to_string_lossy().to_string(): units that are not valid Unicode
\* become U+FFFD, the others are kept.
RECURSIVE ToStringLossy(_)
ToStringLossy(path) ==
    IF path = <<>> THEN ""
    ELSE (IF Head(path) = "<FF>" THEN "<U+FFFD>" ELSE Head(path))
         \o ToStringLossy(Tail(path))

\* The port a Vite dev server binds when left to itself.
DevPortVite == 5000 + 173

\* Line 51: the port start_dev_server reports.
DevPort == 3001

(* ------------------------------------------------------------------ state *)

VARIABLES
    process,   \* DevServerState.process: None or the pid of the tracked Child
    lock,      \* holder of the Mutex: 0 or an invocation
    procs,     \* every process spawned so far, by pid: the command line,
               \* the port it binds, the invocation that spawned it,
               \* whether it runs, and the kill() calls made on it
    files,     \* the lockfiles that exist on disk
    repos,     \* the repo_path values the web view passes in this run
    pc,        \* where each invocation stands
    child,     \* each invocation's local `child`
    log,       \* invocations and returns of the commands, in order
    acq        \* acquisitions of the Mutex, in order: the invocation, its
               \* command and the handle at that time

vars == <<process, lock, procs, files, repos, pc, child, log, acq>>

LockFiles(rs) == {r \o "/" \o n : r \in rs, n \in LockNames}

Pids == DOMAIN procs

\* Events of the log.  An invocation records the repo_path argument or the
\* user's choice in the dialog; a return records the Result (ok, port or
\* text) and the process the call stored or took.
Inv(t, op, arg, choice) ==
    [ev |-> "inv", op |-> op, t |-> t, arg |-> arg, choice |-> choice,
     ok |-> TRUE, port |-> 0, text |-> "", pid |-> None]

Ret(t, op, ok, port, text, pid) ==
    [ev |-> "ret", op |-> op, t |-> t, arg |-> "", choice |-> <<>>,
     ok |-> ok, port |-> port, text |-> text, pid |-> pid]

NumCalls == Cardinality({i \in DOMAIN log : log[i].ev = "inv"})

\* What a call that has just locked the Mutex adds to acq: the handle it
\* finds and, for a stop, the length of the log at that time (what a start
\* does with the Mutex is stamped by its return, which is in the log).
Acquired(t, op) ==
    [t |-> t, op |-> op, saw |-> process,
     at |-> IF op = "stop" THEN Len(log) ELSE 0]

\* Invocation t is the next one the hosting shell makes.
CanInvoke(t) == pc[t] = "new" /\ t = NumCalls + 1

(* ------------------------------------------------------------------- main *)

\* .manage(DevServerState { process: Mutex::new(None) })
InitWith(rs) ==
    /\ process = None
    /\ lock = 0
    /\ procs = <<>>
    /\ repos = rs
    /\ files \in SUBSET LockFiles(rs)
    /\ pc = [t \in Calls |-> "new"]
    /\ child = [t \in Calls |-> None]
    /\ log = <<>>
    /\ acq = <<>>

\* One project folder, any combination of lockfiles in it.
Init == InitWith({"/a"})

\* Two project folders, any combination of lockfiles in each.
InitStart == InitWith(Repos)

(* ----------------------------------------------------- open_folder_dialog *)

\* As OpenFolderDialog, but a cancelled dialog yields the empty path.
OpenFolderDialogOrDefault(t) ==
    /\ CanInvoke(t)
    /\ \E folder \in {NoFolder} \cup FolderChoices :
          log' = log \o <<Inv(t, "pick", "", folder),
                          Ret(t, "pick", TRUE, 0, ToStringLossy(folder), None)>>
    /\ pc' = [pc EXCEPT ![t] = "done"]
    /\ UNCHANGED <<process, lock, procs, files, repos, acq, child>>

\* Lines 14-24: the blocking dialog and the match on its result.
OpenFolderDialog(t) ==
    /\ CanInvoke(t)
    /\ \E folder \in {NoFolder} \cup FolderChoices :
          log' = log \o <<Inv(t, "pick", "", folder),
                          IF folder # NoFolder
                          THEN Ret(t, "pick", TRUE, 0, ToStringLossy(folder), None)
                          ELSE Ret(t, "pick", FALSE, 0, "No folder selected", None)>>
    /\ pc' = [pc EXCEPT ![t] = "done"]
    /\ UNCHANGED <<process, lock, procs, files, repos, acq, child>>

(* ------------------------------------------------------- start_dev_server *)

\* As StartSpawn, but a failed spawn also resets the handle.
StartSpawnResetOnFail(t) ==
    /\ CanInvoke(t)
    /\ \E repo_path \in repos :
         LET pm == DetectPm(files, repo_path) IN
         \/ \E binds \in Ports :
              /\ procs' = Append(procs, [pm |-> pm, args |-> <<"run", "dev">>,
                                         cwd |-> repo_path, binds |-> binds,
                                         by |-> t, alive |-> TRUE,
                                         kills |-> 0])
              /\ child' = [child EXCEPT ![t] = Len(procs) + 1]
              /\ pc' = [pc EXCEPT ![t] = "start_lock"]
              /\ log' = Append(log, Inv(t, "start", repo_path, <<>>))
              /\ UNCHANGED process
         \/ \E e \in SpawnErrors :
              /\ log' = log \o <<Inv(t, "start", repo_path, <<>>),
                                 Ret(t, "start", FALSE, 0,
                                     "Failed to start dev server: " \o e, None)>>
              /\ pc' = [pc EXCEPT ![t] = "done"]
              /\ process' = None
              /\ UNCHANGED <<procs, child>>
    /\ UNCHANGED <<lock, files, repos, acq>>

\* Lines 32-44: choose the package manager and spawn it; a failed spawn
\* returns the error text at once.
StartSpawn(t) ==
    /\ CanInvoke(t)
    /\ \E repo_path \in repos :
         LET pm == DetectPm(files, repo_path) IN
         \/ \E binds \in Ports :
              /\ procs' = Append(procs, [pm |-> pm, args |-> <<"run", "dev">>,
                                         cwd |-> repo_path, binds |-> binds,
                                         by |-> t, alive |-> TRUE,
                                         kills |-> 0])
              /\ child' = [child EXCEPT ![t] = Len(procs) + 1]
              /\ pc' = [pc EXCEPT ![t] = "start_lock"]
              /\ log' = Append(log, Inv(t, "start", repo_path, <<>>))
         \/ \E e \in SpawnErrors :
              /\ log' = log \o <<Inv(t, "start", repo_path, <<>>),
                                 Ret(t, "start", FALSE, 0,
                                     "Failed to start dev server: " \o e, None)>>
              /\ pc' = [pc EXCEPT ![t] = "done"]
              /\ UNCHANGED <<procs, child>>
    /\ UNCHANGED <<process, lock, files, repos, acq>>

\* Line 46: state.process.lock().unwrap()
StartLock(t) ==
    /\ pc[t] = "start_lock"
    /\ lock = 0
    /\ lock' = t
    /\ pc' = [pc EXCEPT ![t] = "start_store"]
    /\ acq' = Append(acq, Acquired(t, "start"))
    /\ UNCHANGED <<process, procs, files, repos, child, log>>

\* As StartStore, but a handle is stored only when none is tracked.
StartStoreIfEmpty(t) ==
    /\ pc[t] = "start_store"
    /\ process' = IF process = None THEN child[t] ELSE process
    /\ lock' = 0
    /\ log' = Append(log, Ret(t, "start", TRUE, DevPort, "", child[t]))
    /\ child' = [child EXCEPT ![t] = None]
    /\ pc' = [pc EXCEPT ![t] = "done"]
    /\ UNCHANGED <<procs, files, repos, acq>>

\* As StartStore, but the handle stored is that of the process spawned
\* last, whichever call spawned it.
StartStoreLatest(t) ==
    /\ pc[t] = "start_store"
    /\ process' = Len(procs)
    /\ lock' = 0
    /\ log' = Append(log, Ret(t, "start", TRUE, DevPort, "", child[t]))
    /\ child' = [child EXCEPT ![t] = None]
    /\ pc' = [pc EXCEPT ![t] = "done"]
    /\ UNCHANGED <<procs, files, repos, acq>>

\* As StartStore, but the process tracked so far is killed before its
\* handle is replaced.
StartStoreKillOld(t) ==
    /\ pc[t] = "start_store"
    /\ process' = child[t]
    /\ procs' = IF process = None THEN procs
                ELSE [procs EXCEPT ![process].alive = FALSE,
                                   ![process].kills = @ + 1]
    /\ lock' = 0
    /\ log' = Append(log, Ret(t, "start", TRUE, DevPort, "", child[t]))
    /\ child' = [child EXCEPT ![t] = None]
    /\ pc' = [pc EXCEPT ![t] = "done"]
    /\ UNCHANGED <<files, repos, acq>>

\* Lines 47-52: store the handle (the old one is dropped, which does not
\* kill it), return the port, release the guard.
StartStore(t) ==
    /\ pc[t] = "start_store"
    /\ process' = child[t]
    /\ lock' = 0
    /\ log' = Append(log, Ret(t, "start", TRUE, DevPort, "", child[t]))
    /\ child' = [child EXCEPT ![t] = None]
    /\ pc' = [pc EXCEPT ![t] = "done"]
    /\ UNCHANGED <<procs, files, repos, acq>>

(* -------------------------------------------------------- stop_dev_server *)

StopCall(t) ==
    /\ CanInvoke(t)
    /\ pc' = [pc EXCEPT ![t] = "stop_lock"]
    /\ log' = Append(log, Inv(t, "stop", "", <<>>))
    /\ UNCHANGED <<process, lock, procs, files, repos, acq, child>>

\* Line 56: state.process.lock().unwrap()
StopLock(t) ==
    /\ pc[t] = "stop_lock"
    /\ lock = 0
    /\ lock' = t
    /\ pc' = [pc EXCEPT ![t] = "stop_take"]
    /\ acq' = Append(acq, Acquired(t, "stop"))
    /\ UNCHANGED <<process, procs, files, repos, child, log>>

\* As StopTake, but the guard is dropped as soon as the handle is taken.
StopTakeUnlock(t) ==
    /\ pc[t] = "stop_take"
    /\ process' = None
    /\ lock' = 0
    /\ IF process = None
       THEN /\ pc' = [pc EXCEPT ![t] = "done"]
            /\ log' = Append(log, Ret(t, "stop", TRUE, 0, "", None))
            /\ UNCHANGED child
       ELSE /\ child' = [child EXCEPT ![t] = process]
            /\ pc' = [pc EXCEPT ![t] = "stop_kill"]
            /\ UNCHANGED log
    /\ UNCHANGED <<procs, files, repos, acq>>

\* As StopTake, but with nothing tracked the call returns an error text.
StopTakeErrWhenNone(t) ==
    /\ pc[t] = "stop_take"
    /\ process' = None
    /\ IF process = None
       THEN /\ lock' = 0
            /\ pc' = [pc EXCEPT ![t] = "done"]
            /\ log' = Append(log, Ret(t, "stop", FALSE, 0,
                                      "No dev server running", None))
            /\ UNCHANGED child
       ELSE /\ child' = [child EXCEPT ![t] = process]
            /\ pc' = [pc EXCEPT ![t] = "stop_kill"]
            /\ UNCHANGED <<lock, log>>
    /\ UNCHANGED <<procs, files, repos, acq>>

\* As StopTake, but the handle is read without being taken out.
StopTakePeek(t) ==
    /\ pc[t] = "stop_take"
    /\ UNCHANGED process
    /\ IF process = None
       THEN /\ lock' = 0
            /\ pc' = [pc EXCEPT ![t] = "done"]
            /\ log' = Append(log, Ret(t, "stop", TRUE, 0, "", None))
            /\ UNCHANGED child
       ELSE /\ child' = [child EXCEPT ![t] = process]
            /\ pc' = [pc EXCEPT ![t] = "stop_kill"]
            /\ UNCHANGED <<lock, log>>
    /\ UNCHANGED <<procs, files, repos, acq>>

\* Line 58: process_lock.take(); with nothing tracked the call returns Ok(()).
StopTake(t) ==
    /\ pc[t] = "stop_take"
    /\ process' = None
    /\ IF process = None
       THEN /\ lock' = 0
            /\ pc' = [pc EXCEPT ![t] = "done"]
            /\ log' = Append(log, Ret(t, "stop", TRUE, 0, "", None))
            /\ UNCHANGED child
       ELSE /\ child' = [child EXCEPT ![t] = process]
            /\ pc' = [pc EXCEPT ![t] = "stop_kill"]
            /\ UNCHANGED <<lock, log>>
    /\ UNCHANGED <<procs, files, repos, acq>>

\* As StopKill, but the error return leaves the Mutex locked.
StopKillKeepLock(t) ==
    /\ pc[t] = "stop_kill"
    /\ LET p == child[t] IN
       \/ /\ procs' = [procs EXCEPT ![p].alive = FALSE, ![p].kills = @ + 1]
          /\ log' = Append(log, Ret(t, "stop", TRUE, 0, "", p))
          /\ lock' = 0
       \/ \E e \in KillErrors :
          /\ procs' = [procs EXCEPT ![p].kills = @ + 1]
          /\ log' = Append(log, Ret(t, "stop", FALSE, 0,
                                    "Failed to stop dev server: " \o e, p))
          /\ UNCHANGED lock
    /\ child' = [child EXCEPT ![t] = None]
    /\ pc' = [pc EXCEPT ![t] = "done"]
    /\ UNCHANGED <<process, files, repos, acq>>

\* As StopKill, but a failed kill() puts the handle back.
StopKillRestoreOnFail(t) ==
    /\ pc[t] = "stop_kill"
    /\ LET p == child[t] IN
       \/ /\ procs' = [procs EXCEPT ![p].alive = FALSE, ![p].kills = @ + 1]
          /\ log' = Append(log, Ret(t, "stop", TRUE, 0, "", p))
          /\ UNCHANGED process
       \/ \E e \in KillErrors :
          /\ procs' = [procs EXCEPT ![p].kills = @ + 1]
          /\ log' = Append(log, Ret(t, "stop", FALSE, 0,
                                    "Failed to stop dev server: " \o e, p))
          /\ process' = p
    /\ lock' = 0
    /\ child' = [child EXCEPT ![t] = None]
    /\ pc' = [pc EXCEPT ![t] = "done"]
    /\ UNCHANGED <<files, repos, acq>>

\* As StopKill, but the result of kill() is dropped.
StopKillIgnoreError(t) ==
    /\ pc[t] = "stop_kill"
    /\ LET p == child[t] IN
       /\ \/ procs' = [procs EXCEPT ![p].alive = FALSE, ![p].kills = @ + 1]
          \/ procs' = [procs EXCEPT ![p].kills = @ + 1]
       /\ log' = Append(log, Ret(t, "stop", TRUE, 0, "", p))
    /\ lock' = 0
    /\ child' = [child EXCEPT ![t] = None]
    /\ pc' = [pc EXCEPT ![t] = "done"]
    /\ UNCHANGED <<process, files, repos, acq>>

\* Lines 59-63: child.kill() with the guard still alive; `?` returns the
\* error text when the kill fails, Ok(()) otherwise; the guard is dropped on
\* either return.
StopKill(t) ==
    /\ pc[t] = "stop_kill"
    /\ LET p == child[t] IN
       \/ /\ procs' = [procs EXCEPT ![p].alive = FALSE, ![p].kills = @ + 1]
          /\ log' = Append(log, Ret(t, "stop", TRUE, 0, "", p))
       \/ \E e \in KillErrors :
          /\ procs' = [procs EXCEPT ![p].kills = @ + 1]
          /\ log' = Append(log, Ret(t, "stop", FALSE, 0,
                                    "Failed to stop dev server: " \o e, p))
    /\ lock' = 0
    /\ child' = [child EXCEPT ![t] = None]
    /\ pc' = [pc EXCEPT ![t] = "done"]
    /\ UNCHANGED <<process, files, repos, acq>>

(* ---------------------------------------------------------- specification *)

Next ==
    \E t \in Calls :
        \/ OpenFolderDialog(t)
        \/ StartSpawn(t)
        \/ StartLock(t)
        \/ StartStore(t)
        \/ StopCall(t)
        \/ StopLock(t)
        \/ StopTake(t)
        \/ StopKill(t)

Spec == Init /\ [][Next]_vars

\* Only start_dev_server is invoked, on either project folder.
NextStart ==
    \E t \in Calls :
        \/ StartSpawn(t)
        \/ StartLock(t)
        \/ StartStore(t)

SpecStart == InitStart /\ [][NextStart]_vars

\* The scheduling the runtime and the operating system provide: a call that
\* can take its next step takes it (store, take and kill return), and a call
\* waiting for the Mutex gets it once the Mutex stays free.  This asks less
\* of the Mutex than granting it fairly does.
Fairness ==
    \A t \in Calls :
        /\ WF_vars(StartStore(t))
        /\ WF_vars(StopTake(t))
        /\ WF_vars(StopKill(t))
        /\ WF_vars(StartLock(t))
        /\ WF_vars(StopLock(t))

\* One project folder without lockfiles.
InitFair == Init /\ files = {}

SpecFair == InitFair /\ [][Next]_vars /\ Fairness

(* ------------------------------------------------------------ the history *)

IsInv(i, op) == i \in DOMAIN log /\ log[i].ev = "inv" /\ log[i].op = op

IsRet(i, op) == i \in DOMAIN log /\ log[i].ev = "ret" /\ log[i].op = op

\* The invocations that have been made but have not returned after the
\* first i events.
InFlightAt(i) ==
    {log[j].t : j \in {j \in 1..i : log[j].ev = "inv"}}
        \ {log[j].t : j \in {j \in 1..i : log[j].ev = "ret"}}

Quiet(i) == InFlightAt(i) = {}

\* Event i is the successful return of a start_dev_server call.
StartOk(i) == IsRet(i, "start") /\ log[i].ok

\* The successful returns of start_dev_server calls in the log.
StartOks == {i \in DOMAIN log : StartOk(i)}

\* The processes spawned by invocation t (at most one).
SpawnedBy(t) == {p \in Pids : procs[p].by = t}

\* The events the step appends to the log.
Appended == SubSeq(log', Len(log) + 1, Len(log'))

(* ----------------------------------------------------------------- claims *)

\* Event i is a successful start that returned with no other call in flight,
\* and the rest of the log is one whole stop call.
StartThenStop(i) ==
    /\ Len(log) = i + 2
    /\ StartOk(i)
    /\ IsInv(i + 1, "stop")
    /\ IsRet(i + 2, "stop")
    /\ Quiet(i)

\* C1: right after a successful start_dev_server call, with no other call in
\* flight, the handle is non-empty and holds the process that call spawned;
\* right after the stop_dev_server call that follows it, the handle is empty
\* and kill() has been called on that process.
C1_StartThenStop ==
    \A i \in StartOks :
        /\ (Len(log) = i /\ StartOk(i) /\ Quiet(i))
              => (process # None /\ process \in SpawnedBy(log[i].t))
        /\ StartThenStop(i)
              => /\ process = None
                 /\ SpawnedBy(log[i].t) # {}
                 /\ \A p \in SpawnedBy(log[i].t) : procs[p].kills = 1

C1_Witness == \E i \in DOMAIN log : StartThenStop(i)

\* A stop_dev_server call is in flight after the first i events.
StopInFlightAt(i) ==
    \E k \in 1..i :
        /\ log[k].ev = "inv" /\ log[k].op = "stop"
        /\ ~ \E m \in k..i : log[m].ev = "ret" /\ log[m].t = log[k].t

\* Events i and j are the successful returns of two start calls, and no
\* stop call is in flight anywhere from the first return to the second.
DoubleStart(i, j) ==
    /\ i < j
    /\ StartOk(i)
    /\ StartOk(j)
    /\ \A k \in i..j : ~ StopInFlightAt(k)

\* The rest of the log after event j is one whole stop call, made with no
\* other call in flight.
StopFollows(j) ==
    /\ Len(log) = j + 2
    /\ IsInv(j + 1, "stop")
    /\ IsRet(j + 2, "stop")
    /\ Quiet(j)

\* C2: when two start_dev_server calls succeed with no stop_dev_server in
\* between, the handle holds the second process right after the second
\* return; from then on the first process is never tracked again, no kill()
\* is ever called on it and it keeps running; a stop that follows kills the
\* second process.
C2_DoubleStartLeak ==
    \A i, j \in StartOks :
        DoubleStart(i, j) =>
            LET first == SpawnedBy(log[i].t)
                second == SpawnedBy(log[j].t)
            IN  /\ first # {} /\ second # {} /\ first \cap second = {}
                /\ \A p \in first :
                      process # p /\ procs[p].kills = 0 /\ procs[p].alive
                /\ (Len(log) = j /\ Quiet(j)) => process \in second
                /\ StopFollows(j) =>
                      /\ process = None
                      /\ \A p \in second : procs[p].kills = 1

C2_Witness ==
    \E i, j \in DOMAIN log : DoubleStart(i, j) /\ StopFollows(j)

\* C3: a stop_dev_server call that finds the handle empty returns Ok(()),
\* calls kill() on nothing and leaves the handle empty; as long as nothing
\* was ever spawned, every stop call that has returned has succeeded.
C3_StopIdle ==
    [][\A t \in Calls :
          (pc[t] = "stop_take" /\ process = None /\ pc'[t] # pc[t]) =>
              /\ pc'[t] = "done"
              /\ Len(Appended) = 1
              /\ Appended[1].ev = "ret" /\ Appended[1].op = "stop"
              /\ Appended[1].t = t
              /\ Appended[1].ok
              /\ procs' = procs
              /\ process' = None
              /\ procs' = <<>> =>
                    \A i \in DOMAIN log' :
                        (log'[i].ev = "ret" /\ log'[i].op = "stop") => log'[i].ok
      ]_vars

\* Two stop calls in a row, nothing ever spawned, both returned Ok(()).
C3_Witness ==
    /\ procs = <<>>
    /\ \E i \in DOMAIN log :
          /\ IsRet(i, "stop") /\ log[i].ok
          /\ IsInv(i + 1, "stop")
          /\ IsRet(i + 2, "stop") /\ log[i + 2].ok

\* The lockfile name is at the root of directory dir.
HasLock(dir, name) == (dir \o "/" \o name) \in files

\* C4: every process start_dev_server spawned runs pnpm when pnpm-lock.yaml
\* is at the root of repo_path (with or without yarn.lock), yarn when only
\* yarn.lock is, npm when neither is; its arguments are "run", "dev" and its
\* directory is the repo_path its call was given.
C4_LockfilePriority ==
    \A p \in Pids :
        LET dir == procs[p].cwd
            pnpm == HasLock(dir, "pnpm-lock.yaml")
            yarn == HasLock(dir, "yarn.lock")
        IN  /\ (pnpm /\ yarn) => procs[p].pm = "pnpm"
            /\ (pnpm /\ ~yarn) => procs[p].pm = "pnpm"
            /\ (~pnpm /\ yarn) => procs[p].pm = "yarn"
            /\ (~pnpm /\ ~yarn) => procs[p].pm = "npm"
            /\ procs[p].args = <<"run", "dev">>
            /\ \E i \in DOMAIN log :
                  /\ IsInv(i, "start")
                  /\ log[i].t = procs[p].by
                  /\ log[i].arg = dir

\* Both lockfiles in one folder and only yarn.lock in the other, and a
\* process spawned in each.
C4_Witness ==
    \E p, q \in Pids :
        /\ HasLock(procs[p].cwd, "pnpm-lock.yaml")
        /\ HasLock(procs[p].cwd, "yarn.lock")
        /\ procs[p].pm = "pnpm"
        /\ ~ HasLock(procs[q].cwd, "pnpm-lock.yaml")
        /\ HasLock(procs[q].cwd, "yarn.lock")
        /\ procs[q].pm = "yarn"

\* C5: a start_dev_server call whose spawn fails (no process is created)
\* returns the error text, no port, and leaves the handle, the mutex and
\* every process as they were.
C5_SpawnFailure ==
    [][\A t \in Calls :
          (/\ pc[t] = "new"
           /\ Len(Appended) >= 1
           /\ Appended[1].ev = "inv" /\ Appended[1].op = "start"
           /\ Appended[1].t = t
           /\ Len(procs') = Len(procs)) =>
              /\ Len(Appended) = 2
              /\ Appended[2].ev = "ret" /\ Appended[2].op = "start"
              /\ Appended[2].t = t
              /\ ~ Appended[2].ok
              /\ Appended[2].port = 0
              /\ Appended[2].text \in
                    {"Failed to start dev server: " \o e : e \in SpawnErrors}
              /\ process' = process
              /\ procs' = procs
              /\ lock' = lock
      ]_vars

\* A start call failed to spawn while a running process was tracked, and
\* that process is still tracked.
C5_Witness ==
    /\ process # None
    /\ procs[process].alive
    /\ Len(log) >= 1
    /\ IsRet(Len(log), "start")
    /\ ~ log[Len(log)].ok

\* C6 as stated: every stop_dev_server call that has returned, whether it
\* found no process or failed to terminate the one it found, returned
\* success.
C6_StopAlwaysSucceeds ==
    \A i \in DOMAIN log : IsRet(i, "stop") => log[i].ok

\* C6 as amended: stop_dev_server makes no distinction between "no process
\* to stop" and a process it terminated, both return success; it returns
\* anything else only when terminating the process it took failed.
C6_StopSucceedsUnlessKillFails ==
    \A i \in DOMAIN log :
        IsRet(i, "stop") =>
            (log[i].ok <=> (log[i].pid = None \/ ~ procs[log[i].pid].alive))

\* A stop that found nothing and a stop that terminated a process, both
\* returned success.
C6_Witness ==
    \E i, j \in DOMAIN log :
        /\ IsRet(i, "stop") /\ log[i].ok /\ log[i].pid = None
        /\ IsRet(j, "stop") /\ log[j].ok /\ log[j].pid # None

\* C7: a step in which kill() is called on a process and fails (the process
\* keeps running) is the return of the stop_dev_server call that took that
\* process, and it returns the failure text, not success.
C7_KillFailureText ==
    [][\A p \in Pids :
          (procs'[p].kills = procs[p].kills + 1 /\ procs'[p].alive) =>
              /\ Len(Appended) = 1
              /\ Appended[1].ev = "ret" /\ Appended[1].op = "stop"
              /\ pc[Appended[1].t] = "stop_kill"
              /\ child[Appended[1].t] = p
              /\ ~ Appended[1].ok
              /\ Appended[1].text \in
                    {"Failed to stop dev server: " \o e : e \in KillErrors}
      ]_vars

\* A stop call has returned the failure text and the process is running.
C7_Witness ==
    \E i \in DOMAIN log :
        /\ IsRet(i, "stop")
        /\ ~ log[i].ok
        /\ \E p \in Pids : procs[p].kills = 1 /\ procs[p].alive

\* C8: the handle is empty at application start; in every state it is
\* either empty or holds one spawned process, the one stored by exactly one
\* start_dev_server call that has returned success.
C8_AtMostOneTracked ==
    /\ process \in {None} \cup Pids
    /\ log = <<>> => process = None
    /\ process # None =>
          Cardinality({i \in DOMAIN log :
                         StartOk(i) /\ log[i].t = procs[process].by}) = 1

\* Two processes spawned after a folder pick, one of them tracked.
C8_Witness ==
    /\ process # None
    /\ Len(procs) >= 2
    /\ \E i \in DOMAIN log : IsRet(i, "pick")

\* C9: every successful return of start_dev_server carries port 3001, and
\* at that return the handle holds the process the call spawned.
C9_FixedPort ==
    [][\A k \in 1..Len(Appended) :
          (Appended[k].ev = "ret" /\ Appended[k].op = "start"
           /\ Appended[k].ok) =>
              /\ Appended[k].port = 3001
              /\ process' # None
              /\ process' \in DOMAIN procs'
              /\ procs'[process'].by = Appended[k].t
      ]_vars

\* A start call has just returned port 3001 for a yarn process that binds
\* 5173, replacing a handle stored by an earlier start.
C9_Witness ==
    /\ Len(log) >= 1
    /\ StartOk(Len(log))
    /\ log[Len(log)].port = 3001
    /\ process # None
    /\ procs[process].by = log[Len(log)].t
    /\ procs[process].binds = 5173
    /\ procs[process].pm = "yarn"
    /\ \E i \in 1..(Len(log) - 1) : StartOk(i)

\* What the web view receives for each folder the user can choose.
PathText(folder) == IF folder = <<"/a">> THEN "/a" ELSE "/b<U+FFFD>"

\* C10: open_folder_dialog returns the error "No folder selected" when the
\* user cancels, and the text of the chosen path exactly when the user
\* chose a folder; it changes neither the handle, nor the mutex, nor any
\* process.
C10_FolderDialog ==
    [][\A t \in Calls :
          (/\ pc[t] = "new"
           /\ Len(Appended) >= 1
           /\ Appended[1].ev = "inv" /\ Appended[1].op = "pick"
           /\ Appended[1].t = t) =>
              LET choice == Appended[1].choice IN
              /\ Len(Appended) = 2
              /\ Appended[2].ev = "ret" /\ Appended[2].op = "pick"
              /\ Appended[2].t = t
              /\ choice = NoFolder =>
                    (~ Appended[2].ok /\ Appended[2].text = "No folder selected")
              /\ choice # NoFolder =>
                    (Appended[2].ok /\ Appended[2].text = PathText(choice))
              /\ process' = process
              /\ procs' = procs
              /\ lock' = lock
      ]_vars

\* A cancelled dialog and a chosen folder, both while a process is tracked.
C10_Witness ==
    /\ process # None
    /\ \E i, j \in DOMAIN log :
          /\ IsRet(i, "pick") /\ ~ log[i].ok
          /\ IsRet(j, "pick") /\ log[j].ok

\* The step spawns a process on behalf of invocation t.
Spawns(t) == pc[t] = "new" /\ Len(procs') = Len(procs) + 1 /\ procs'[Len(procs')].by = t

\* The step is invocation t's call of kill() on process p.
Kills(t, p) ==
    /\ pc[t] = "stop_kill"
    /\ child[t] = p
    /\ procs'[p].kills = procs[p].kills + 1

\* Invocation t has locked the Mutex at some time.
HasAcquired(t) == \E k \in DOMAIN acq : acq[k].t = t

\* Start's half of C11: the call neither holds nor has held the Mutex when
\* it spawns, and the spawn is over (its child exists) when it locks.
SpawnOutsideLock ==
    \A t \in Calls :
        /\ Spawns(t) => (lock # t /\ lock' # t /\ ~ HasAcquired(t))
        /\ (pc[t] = "start_lock" /\ lock' = t) => child[t] \in Pids

\* C11 as stated: start_dev_server spawns before it locks the Mutex, and
\* stop_dev_server no longer holds the Mutex when it calls kill().
C11_LockNeverAcrossSyscall ==
    [][/\ SpawnOutsideLock
       /\ \A t \in Calls : \A p \in Pids : Kills(t, p) => lock # t
      ]_vars

\* C11 as amended: start_dev_server spawns before it locks the Mutex;
\* stop_dev_server still holds the Mutex when it calls kill() and releases
\* it only as the call returns.
C11_LockHeldAcrossKillOnly ==
    [][/\ SpawnOutsideLock
       /\ \A t \in Calls : \A p \in Pids :
             Kills(t, p) => (lock = t /\ lock' = 0 /\ pc'[t] = "done")
      ]_vars

\* A start has stored its process and a stop has called kill() on it.
C11_Witness ==
    \E p \in Pids :
        /\ procs[p].kills = 1
        /\ HasAcquired(procs[p].by)
        /\ lock = 0

\* Where invocation t was made in the log, and its place among the
\* acquisitions of the Mutex.
InvPos(t) == CHOOSE i \in DOMAIN log : log[i].ev = "inv" /\ log[i].t = t

AcqPos(t) == CHOOSE k \in DOMAIN acq : acq[k].t = t

\* Events i and j are the successful returns of two start calls that ran
\* concurrently (the later to return was invoked before the earlier
\* returned), with no stop call in flight from the first return to the second.
ConcurrentStarts(i, j) ==
    /\ DoubleStart(i, j)
    /\ InvPos(log[j].t) < i

\* C12: a start_dev_server call whose spawn succeeded returns success; of
\* two concurrent start calls that both returned, the one that locked the
\* Mutex last has its process tracked right after its return, and the other
\* call's process is from then on never tracked, never the target of a
\* kill(), and running.
C12_ConcurrentStartsClobber ==
    /\ \A i \in DOMAIN log :
          (IsRet(i, "start") /\ SpawnedBy(log[i].t) # {}) => log[i].ok
    /\ \A i, j \in StartOks :
          ConcurrentStarts(i, j) =>
              LET first == SpawnedBy(log[i].t)
                  second == SpawnedBy(log[j].t)
              IN  /\ HasAcquired(log[i].t) /\ HasAcquired(log[j].t)
                  /\ AcqPos(log[i].t) < AcqPos(log[j].t)
                  /\ \A p \in first :
                        process # p /\ procs[p].kills = 0 /\ procs[p].alive
                  /\ (Len(log) = j /\ Quiet(j)) =>
                        /\ process \in second
                        /\ Cardinality({p \in first \cup second : process = p}) = 1

\* Two concurrent starts where the process spawned first is the one left
\* tracked, and a following stop has returned.
C12_Witness ==
    \E i, j \in DOMAIN log :
        /\ ConcurrentStarts(i, j)
        /\ StopFollows(j)
        /\ \E p \in SpawnedBy(log[i].t), q \in SpawnedBy(log[j].t) : q < p

\* A start call has stored its handle after the first n events of the log.
StoredSince(n) == \E j \in DOMAIN log : j > n /\ StartOk(j)

\* The stop calls that found process p in the handle when they locked.
StopsThatSaw(p) ==
    {k \in DOMAIN acq : acq[k].op = "stop" /\ acq[k].saw = p}

\* C13: once a stop_dev_server call has returned, with success or with the
\* failure text, the handle is empty unless a start call has stored a handle
\* since that stop locked the Mutex; the process of a failed kill() is out
\* of the handle for good, still running, and no other stop ever finds it.
C13_StopAlwaysClears ==
    \A i \in DOMAIN log :
        IsRet(i, "stop") =>
            /\ HasAcquired(log[i].t)
            /\ ~ StoredSince(acq[AcqPos(log[i].t)].at) => process = None
            /\ ~ log[i].ok =>
                  LET p == log[i].pid IN
                  /\ p \in Pids
                  /\ process # p
                  /\ procs[p].alive
                  /\ procs[p].kills = 1
                  /\ StopsThatSaw(p) = {AcqPos(log[i].t)}

\* A stop whose kill() failed, then a stop that found nothing to stop.
C13_Witness ==
    \E i \in DOMAIN log :
        /\ IsRet(i, "stop") /\ ~ log[i].ok
        /\ IsInv(i + 1, "stop")
        /\ IsRet(i + 2, "stop") /\ log[i + 2].ok /\ log[i + 2].pid = None
        /\ process = None

\* Where invocation t returned in the log.
RetPos(t) == CHOOSE i \in DOMAIN log : log[i].ev = "ret" /\ log[i].t = t

Returned(t) == \E i \in DOMAIN log : log[i].ev = "ret" /\ log[i].t = t

\* Acquisition k is that of a stop call which locked the Mutex after start
\* call v had spawned its process and before v locked the Mutex.
StopRacesStart(k, v) ==
    /\ acq[k].op = "stop"
    /\ SpawnedBy(v) # {}
    /\ InvPos(v) <= acq[k].at
    /\ HasAcquired(v) => AcqPos(v) > k

\* What C14 says of such a race, but for the result of the stop call: the
\* stop takes what the handle held when it locked, which is not the start's
\* process, and right after the start returns with nothing else in flight
\* the start's process is tracked, running and was never the target of a
\* kill().
RaceOutcome(k, v) ==
    /\ acq[k].saw \notin SpawnedBy(v)
    /\ Returned(acq[k].t) => log[RetPos(acq[k].t)].pid = acq[k].saw
    /\ (Returned(v) /\ RetPos(v) = Len(log) /\ Quiet(Len(log))) =>
          /\ Returned(acq[k].t)
          /\ process \in SpawnedBy(v)
          /\ procs[process].alive
          /\ procs[process].kills = 0

\* C14 as stated: in such a race the stop call kills only what was tracked
\* before, returns success, and leaves the start's process tracked and
\* running once both have returned.
C14_StopRaceSucceeds ==
    \A k \in DOMAIN acq : \A v \in Calls :
        StopRacesStart(k, v) =>
            /\ RaceOutcome(k, v)
            /\ Returned(acq[k].t) => log[RetPos(acq[k].t)].ok

\* C14 as amended: in such a race the stop call kills only what was tracked
\* before and returns success unless that kill() fails (it always succeeds
\* when the handle was empty); the start's process is tracked and running
\* once both have returned.
C14_StopRaceOutcome ==
    \A k \in DOMAIN acq : \A v \in Calls :
        StopRacesStart(k, v) =>
            /\ RaceOutcome(k, v)
            /\ Returned(acq[k].t) =>
                  (log[RetPos(acq[k].t)].ok <=>
                      (acq[k].saw = None \/ ~ procs[acq[k].saw].alive))

\* A stop that was invoked before the start, locked an empty handle after
\* the start's spawn and returned success; then the start returned.
C14_Witness ==
    \E k \in DOMAIN acq : \E v \in Calls :
        /\ StopRacesStart(k, v)
        /\ acq[k].saw = None
        /\ InvPos(acq[k].t) < InvPos(v)
        /\ Returned(acq[k].t)
        /\ log[RetPos(acq[k].t)].ok
        /\ Returned(v)
        /\ RetPos(v) = Len(log)
        /\ Quiet(Len(log))
        /\ process \in SpawnedBy(v)

\* C15: the handle, when not empty, holds a process that a start call
\* spawned and stored and on which kill() was never called; a stop call has
\* emptied the handle before it calls kill(); kill() is called on a process
\* at most once, and only by a stop call that found it in the handle when
\* it locked the Mutex, never by a start call.
C15_TrackedNeverKilled ==
    /\ process # None =>
          /\ process \in Pids
          /\ procs[process].kills = 0
          /\ \E i \in DOMAIN log : StartOk(i) /\ log[i].t = procs[process].by
    /\ \A t \in Calls :
          pc[t] = "stop_kill" =>
              /\ process = None
              /\ child[t] \in Pids
              /\ child[t] = acq[AcqPos(t)].saw
    /\ \A p \in Pids :
          /\ procs[p].kills <= 1
          /\ Cardinality(StopsThatSaw(p)) <= 1
          /\ procs[p].kills =
                Cardinality({k \in StopsThatSaw(p) : Returned(acq[k].t)})

\* One process has been the target of a kill(), another is tracked.
C15_Witness ==
    /\ process # None
    /\ \E p \in Pids : p # process /\ procs[p].kills = 1

\* Process p runs and is not in the handle.
Untracked(p) == process # p /\ procs[p].alive

\* The start call that spawned p has not stored its handle yet.
BeforeStore(p) == pc[procs[p].by] \in {"start_lock", "start_store"}

\* A start call found p in the handle when it locked and has stored its own
\* handle over it.
Overwritten(p) ==
    \E k \in DOMAIN acq :
        acq[k].op = "start" /\ acq[k].saw = p /\ Returned(acq[k].t)

\* A stop call took p out of the handle, called kill() on it and returned.
KillFailed(p) ==
    /\ procs[p].kills >= 1
    /\ \E k \in StopsThatSaw(p) : Returned(acq[k].t)

\* A stop call has taken p out of the handle and has not called kill() yet.
BeingKilled(p) == \E t \in Calls : pc[t] = "stop_kill" /\ child[t] = p

Count(b) == IF b THEN 1 ELSE 0

\* C16 as stated: every running process that is not in the handle is in
\* exactly one of three situations: its start has not stored it yet,
\* another start's store overwrote it, or a stop took it and the kill()
\* failed.
C16_ThreeWaysUntracked ==
    \A p \in Pids :
        Untracked(p) =>
            Count(BeforeStore(p)) + Count(Overwritten(p))
                + Count(KillFailed(p)) = 1

\* C16 as amended: every running process that is not in the handle is in
\* exactly one of four situations: the three above, or a stop has taken it
\* out of the handle and its kill() has not returned yet.
C16_FourWaysUntracked ==
    \A p \in Pids :
        Untracked(p) =>
            Count(BeforeStore(p)) + Count(Overwritten(p))
                + Count(KillFailed(p)) + Count(BeingKilled(p)) = 1

\* One running process was overwritten and another survived its kill().
C16_Witness ==
    \E p, q \in Pids :
        /\ Untracked(p) /\ Overwritten(p)
        /\ Untracked(q) /\ KillFailed(q)

\* The invocations that are between locking the Mutex and returning.
Holders == {t \in Calls : pc[t] \in {"start_store", "stop_take", "stop_kill"}}

InFlight == {t \in Calls : pc[t] \notin {"new", "done"}}

\* The safety half of C17.
LockDiscipline ==
    /\ Cardinality(Holders) <= 1
    /\ lock = 0 <=> Holders = {}
    /\ lock # 0 => Holders = {lock}
    /\ \A t \in Calls :
          /\ Cardinality({k \in DOMAIN acq : acq[k].t = t}) <= 1
          /\ t \in Holders => HasAcquired(t)
          /\ pc[t] = "done" => (lock # t /\ Returned(t))
          /\ pc[t] = "new" => ~ HasAcquired(t)
    /\ \A i \in DOMAIN log :
          (IsRet(i, "start") /\ ~ log[i].ok) => ~ HasAcquired(log[i].t)
    /\ InFlight # {} =>
          ENABLED (\E t \in InFlight :
                      \/ StartLock(t) \/ StartStore(t)
                      \/ StopLock(t) \/ StopTake(t) \/ StopKill(t))

\* C17: at most one call holds the Mutex; a call locks it at most once, not
\* at all when its spawn fails, and has released it when it has returned,
\* on the failure return of stop as well; while a call is in flight some
\* call in flight can take a step; and, under the fairness above, every
\* call that was invoked returns.
C17_LockReleasedAndCallsReturn ==
    /\ []LockDiscipline
    /\ \A t \in Calls : (t \in InFlight) ~> (pc[t] = "done")

\* Every call has returned, one of them a stop whose kill() failed and one
\* a start whose spawn failed, and the Mutex is free.
C17_Witness ==
    /\ \A t \in Calls : pc[t] = "done"
    /\ lock = 0
    /\ \E i, j \in DOMAIN log :
          /\ IsRet(i, "stop") /\ ~ log[i].ok
          /\ IsRet(j, "start") /\ ~ log[j].ok

====
